---- MODULE Spec2Model ----
(***************************************************************************)
(* GraphWorkspace of tensorrt-laboratory (tensorrt/src/graph_workspace.cc) *)
(* as a state machine: the registration maps, the two sizing high-water    *)
(* marks, the two device allocations and the graph caches are the state;   *)
(* every public method is one action.  LOG(FATAL) / CHECK_* abort the      *)
(* process: the state is kept as it was at the abort and nothing runs      *)
(* after it.  A std::runtime_error thrown by a lookup is returned to the   *)
(* caller and the workspace lives on.                                      *)
(***************************************************************************)
EXTENDS Integers, Sequences, FiniteSets, TLC

\* ---------------------------------------------------------------- bounds
\* batch sizes passed to the methods are 1..MaxBatchArg
MaxBatchArg == 2
\* keys a run registers (a call that aborts is always offered)
MaxRegistrations == 2
\* BuildGraphs calls per run
MaxBuilds == 2
\* callbacks of one Run call that are followed
MaxCallbacks == 3

\* ------------------------------------------------------ program constants
\* 128 * 1024, the coarse boundary both sizes are aligned to
CoarseAlignment == 131072
\* DeviceInfo::Alignment(), the per-binding pad and the stack's alignment
DeviceAlignment == 256

\* ----------------------------------------------------------------- inputs
\* std::string compares "A" < "B": the names in increasing order
NameOrder == <<"A", "B">>
Names == {NameOrder[i] : i \in 1..Len(NameOrder)}
BatchSizes == 1..MaxBatchArg
Keys == Names \X BatchSizes

\* The Model objects a caller holds.  Their sizing facts are fixed; only the
\* name is written by the workspace.  bytes[i] is bytesPerBatchItem of slot i.
ModelInfo ==
    [m1 |-> [maxBatch |-> 2, bytes |-> <<4, 8>>,           activations |-> 1000],
     m2 |-> [maxBatch |-> 1, bytes |-> <<131000, 10>>,     activations |-> 131072],
     m3 |-> [maxBatch |-> 2, bytes |-> <<100, 300, 70000>>, activations |-> 300000]]
ModelIds == DOMAIN ModelInfo

GetMaxBatchSize(model) == ModelInfo[model].maxBatch
GetBindingsCount(model) == Len(ModelInfo[model].bytes)
GetBinding(model, i) == [bytesPerBatchItem |-> ModelInfo[model].bytes[i]]
GetActivationsMemorySize(model) == ModelInfo[model].activations

RECURSIVE SumBytes(_, _)
SumBytes(model, i) ==
    IF i = 0 THEN 0
    ELSE SumBytes(model, i - 1)
         + GetMaxBatchSize(model) * GetBinding(model, i).bytesPerBatchItem
\* sum over the slots of maxBatch * bytesPerBatchItem
GetBindingMemorySize(model) == SumBytes(model, GetBindingsCount(model))

\* ---------------------------------------------------------------- helpers
\* the two marks summed instead of maximised
Max_Sum(a, b) == a + b

\* std::max
Max(a, b) == IF a >= b THEN a ELSE b

Align(size, alignment) ==
    LET remainder == size % alignment
    IN  IF remainder = 0 THEN size ELSE size + alignment - remainder

MakeKey(name, batch_size) == <<name, batch_size>>

\* std::map insert-or-assign: m[k] = v
Put(f, k, v) == [x \in (DOMAIN f) \cup {k} |-> IF x = k THEN v ELSE f[x]]
\* an empty std::map
EmptyMap == [x \in {} |-> 0]

NameRank(n) == CHOOSE i \in 1..Len(NameOrder) : NameOrder[i] = n
\* std::pair<std::string, uint32_t> ordering: by name, then by batch size
KeyLess(a, b) ==
    \/ NameRank(a[1]) < NameRank(b[1])
    \/ a[1] = b[1] /\ a[2] < b[2]

RECURSIVE KeySeq(_)
\* the keys of a std::map in iteration order
KeySeq(S) ==
    IF S = {} THEN <<>>
    ELSE LET k == CHOOSE x \in S : \A y \in S \ {x} : KeyLess(x, y)
         IN  <<k>> \o KeySeq(S \ {k})

\* a null std::unique_ptr to a device allocation
NullAlloc == [alloc |-> 0, size |-> 0, offset |-> 0]

VARIABLES
    m_DeviceStackSize,      \* size_t
    m_ActivationsSize,      \* size_t
    m_Models,               \* name -> model
    m_ExecutionContexts,    \* name -> execution context
    m_ModelsAndBatchSize,   \* (name, batch) -> model
    m_BindingsStack,        \* MemoryStack<CudaDeviceMemory>, NullAlloc when unset
    m_ActivationSpace,      \* Allocator<CudaDeviceMemory>, NullAlloc when unset
    m_DeviceBindings,       \* name -> sequence of device addresses
    m_Graphs,               \* (name, batch) -> cudaGraph_t
    m_GraphExecutors,       \* (name, batch) -> cudaGraphExec_t
    modelName,              \* model -> the name SetName gave it ("" when none)
    fatal,                  \* the process was aborted by LOG(FATAL) / CHECK
    last,                   \* the last call and what the caller got back
    nextHandle,             \* next fresh handle (context, allocation, graph)
    registerCalls,          \* RegisterModel calls made
    buildCalls,             \* BuildGraphs calls made
    builtKeys,              \* keys registered when a BuildGraphs call returned
    pushes,                 \* name -> times its bindings were pushed on the stack
    events,                 \* the statements the latest building BuildGraphs ran
    created,                \* every cudaGraph_t / cudaGraphExec_t ever created
    stackPeak,              \* highest offset the Device Memory Stack reached
    bufferSizes,            \* name -> bytes allocated for each of its bindings
    released,               \* what the destructor released, in order
    serving,                \* the serving threads were let at the workspace
    frozen,                 \* the members as they were when serving began
    threads,                \* serving thread -> its call and what it got back
    test,                   \* the server test that runs ("" before SetUp)
    mainPc,                 \* where the test body is
    bgPc,                   \* where the task of the background thread is
    serverRunning,          \* what m_Server->Running() returns
    running,                \* the local `running` of RunAndShutdown
    mutex,                  \* the local `mutex`: who holds it
    callbacks,              \* times the callback passed to Run returned
    expects                 \* the EXPECT_* evaluated: place, expected, got

workspace ==
    <<m_DeviceStackSize, m_ActivationsSize, m_Models, m_ExecutionContexts,
      m_ModelsAndBatchSize, m_BindingsStack, m_ActivationSpace,
      m_DeviceBindings, m_Graphs, m_GraphExecutors, modelName>>
history == <<nextHandle, registerCalls, buildCalls, builtKeys, pushes>>
\* what a build leaves behind besides the members
buildLog == <<events, created, stackPeak, bufferSizes>>
\* state no method of a live workspace touches
\* the serving threads
callers == <<serving, frozen, threads>>
\* the RPC server test fixture
rpc == <<test, mainPc, bgPc, serverRunning, running, mutex, callbacks, expects>>
offstage == <<released, callers, rpc>>
vars == <<workspace, fatal, last, history, buildLog, offstage>>

\* the serving threads, and a thread outside every accessor
Threads == {"t1", "t2"}
Idle == [pc |-> "idle", op |-> "", name |-> "", batch |-> 0, result |-> "",
         value |-> <<>>]

\* the destructor has run
Destroyed == released # <<>>

Call(op, name, batch, model, result) ==
    [op |-> op, name |-> name, batch |-> batch, model |-> model, result |-> result]

Init ==
    /\ m_DeviceStackSize = 0
    /\ m_ActivationsSize = 0
    /\ m_Models = EmptyMap
    /\ m_ExecutionContexts = EmptyMap
    /\ m_ModelsAndBatchSize = EmptyMap
    /\ m_BindingsStack = NullAlloc
    /\ m_ActivationSpace = NullAlloc
    /\ m_DeviceBindings = EmptyMap
    /\ m_Graphs = EmptyMap
    /\ m_GraphExecutors = EmptyMap
    /\ modelName = [m \in ModelIds |-> ""]
    /\ fatal = FALSE
    /\ last = Call("GraphWorkspace", "", 0, "", "ok")
    /\ nextHandle = 1
    /\ registerCalls = 0
    /\ buildCalls = 0
    /\ builtKeys = {}
    /\ pushes = [n \in Names |-> 0]
    /\ events = <<>>
    /\ created = {}
    /\ stackPeak = 0
    /\ bufferSizes = EmptyMap
    /\ released = <<>>
    /\ serving = FALSE
    /\ frozen = <<>>
    /\ threads = [t \in Threads |-> Idle]
    /\ test = ""
    /\ mainPc = "none"
    /\ bgPc = "none"
    /\ serverRunning = FALSE
    /\ running = FALSE
    /\ mutex = "free"
    /\ callbacks = 0
    /\ expects = <<>>

\* ----------------------------------------------------------- RegisterModel
\* the phase check left out
AfterGraphCreation_Never == FALSE

\* if(m_BindingsStack || m_ActivationSpace)
AfterGraphCreation == m_BindingsStack.alloc # 0 \/ m_ActivationSpace.alloc # 0

\* the bound off by one
BatchTooLarge_OffByOne(model, batch_size) ==
    ~(batch_size <= GetMaxBatchSize(model) + 1)

\* CHECK_LE(batch_size, model->GetMaxBatchSize()) fails
BatchTooLarge(model, batch_size) == ~(batch_size <= GetMaxBatchSize(model))

\* the collision searched in the graph map
ModelCollision_InGraphs(key) == key \in DOMAIN m_Graphs
\* the collision searched by name alone
ModelCollision_ByName(key) == key[1] \in DOMAIN m_Models

\* search != m_ModelsAndBatchSize.end()
ModelCollision(key) == key \in DOMAIN m_ModelsAndBatchSize

\* the pad of one alignment per binding left out
DeviceRequirement_NoPad(model) ==
    Align(GetBindingMemorySize(model), CoarseAlignment)

\* size_t device = Align(bindings, 128 * 1024)
DeviceRequirement(model) ==
    LET bindings == GetBindingMemorySize(model)
                    + GetBindingsCount(model) * DeviceAlignment
    IN  Align(bindings, CoarseAlignment)

\* size_t activations = Align(model->GetActivationsMemorySize(), 128 * 1024)
ActivationsRequirement(model) ==
    Align(GetActivationsMemorySize(model), CoarseAlignment)

\* the abort raised after the sizing statements
RegisterModelFatal_AfterSizing(name, model, batch_size) ==
    /\ fatal' = TRUE
    /\ last' = Call("RegisterModel", name, batch_size, model, "fatal")
    /\ m_DeviceStackSize' = Max(m_DeviceStackSize, DeviceRequirement(model))
    /\ m_ActivationsSize' = Max(m_ActivationsSize, ActivationsRequirement(model))
    /\ UNCHANGED <<m_Models, m_ExecutionContexts, m_ModelsAndBatchSize,
                   m_BindingsStack, m_ActivationSpace, m_DeviceBindings, m_Graphs,
                   m_GraphExecutors, modelName, nextHandle, buildCalls,
                   builtKeys, pushes>>

\* the abort: nothing after the failing statement runs
RegisterModelFatal(name, model, batch_size) ==
    /\ fatal' = TRUE
    /\ last' = Call("RegisterModel", name, batch_size, model, "fatal")
    /\ UNCHANGED <<workspace, nextHandle, buildCalls, builtKeys, pushes>>

RegisterModelStore(name, model, batch_size) ==
    LET key == MakeKey(name, batch_size)
        ctx == [id |-> nextHandle, model |-> model, deviceMemory |-> 0]
    IN  /\ m_DeviceStackSize' = Max(m_DeviceStackSize, DeviceRequirement(model))
        /\ m_ActivationsSize' = Max(m_ActivationsSize, ActivationsRequirement(model))
        /\ modelName' = [modelName EXCEPT ![model] = name]
        /\ m_Models' = Put(m_Models, name, model)
        /\ m_ExecutionContexts' = Put(m_ExecutionContexts, name, ctx)
        /\ m_ModelsAndBatchSize' = Put(m_ModelsAndBatchSize, key, model)
        /\ nextHandle' = nextHandle + 1
        /\ last' = Call("RegisterModel", name, batch_size, model, "ok")
        /\ UNCHANGED <<m_BindingsStack, m_ActivationSpace, m_DeviceBindings,
                       m_Graphs, m_GraphExecutors, fatal, buildCalls,
                       builtKeys, pushes>>

RegisterModel(name, model, batch_size) ==
    /\ ~fatal
    /\ ~Destroyed
    /\ registerCalls' = registerCalls + 1
    /\ UNCHANGED <<buildLog, offstage>>
    /\ IF AfterGraphCreation
       THEN RegisterModelFatal(name, model, batch_size)
       ELSE IF BatchTooLarge(model, batch_size)
       THEN RegisterModelFatal(name, model, batch_size)
       ELSE IF ModelCollision(MakeKey(name, batch_size))
       THEN RegisterModelFatal(name, model, batch_size)
       ELSE /\ Cardinality(DOMAIN m_ModelsAndBatchSize) < MaxRegistrations
            /\ RegisterModelStore(name, model, batch_size)

\* ------------------------------------------------------------- BuildGraphs
\* MemoryStack::Allocate: the next aligned sub-range; the offset advances
StackAllocate(stack, size) ==
    [ptr   |-> [alloc |-> stack.alloc, off |-> stack.offset],
     stack |-> [stack EXCEPT !.offset = stack.offset + Align(size, DeviceAlignment)]]

\* MemoryStack::Reset: the offset rewinds to zero, the allocation stays
StackReset(stack) == [stack EXCEPT !.offset = 0]

RECURSIVE PushBindings(_, _, _)
\* for(int i = 0; i < model.GetBindingsCount(); i++)
\*     bindings[i] = m_BindingsStack->Allocate(max_batch_size * bytesPerBatchItem)
\* slots 1..n pushed in order on stack; the addresses and the stack after it
PushBindings(stack, model, n) ==
    IF n = 0 THEN [bindings |-> <<>>, stack |-> stack]
    ELSE LET before == PushBindings(stack, model, n - 1)
             size == GetMaxBatchSize(model) * GetBinding(model, n).bytesPerBatchItem
             got == StackAllocate(before.stack, size)
         IN  [bindings |-> Append(before.bindings, got.ptr), stack |-> got.stack]

\* the cache of bindings never consulted
BindingsCached_Never(bindings, name) == FALSE

\* search != m_DeviceBindings.end()
BindingsCached(bindings, name) == name \in DOMAIN bindings

\* A GPU API call of the build can fail (CHECK_EQ(..., CUDA_SUCCESS) aborts):
\* at key number `at`, in the capture (begin / end) or in the instantiation.
NoFault == [at |-> 0, step |-> "none"]
Faults(n) == {NoFault} \cup [at : 1..n, step : {"capture", "instantiate"}]

\* the loop body without m_BindingsStack->Reset()
KeySteps_NoReset ==
    <<"setDeviceMemory", "resolveBindings", "beginCapture", "enqueue",
      "endCapture", "storeGraph", "instantiate", "storeExecutor">>

\* the loop body with enqueue issued before the capture begins
KeySteps_EnqueueFirst ==
    <<"setDeviceMemory", "resolveBindings", "enqueue", "beginCapture",
      "endCapture", "storeGraph", "resetStack", "instantiate", "storeExecutor">>

\* The statements of one iteration of the loop over m_ModelsAndBatchSize,
\* in program order.
KeySteps ==
    <<"setDeviceMemory", "resolveBindings", "beginCapture", "enqueue",
      "endCapture", "storeGraph", "resetStack", "instantiate", "storeExecutor">>

\* the statement a failing CUDA call of the fault is in
FaultStatement(step) == IF step = "capture" THEN "beginCapture" ELSE step

\* One statement of the iteration for key, on the build state b.  cur, graph
\* and graphExec are the locals `bindings`, `graph` and `graphExec`.
KeyStep(b, key, statement) ==
    LET name == key[1]
        batch_size == key[2]
        model == m_ModelsAndBatchSize[key]
        logged == [b EXCEPT !.events = Append(@, [ev |-> statement, key |-> key])]
    IN  CASE statement = "setDeviceMemory" ->
                \* ctx->setDeviceMemory(m_ActivationSpace->Data())
                [logged EXCEPT !.ctxs[name].deviceMemory = b.act.alloc]
          [] statement = "resolveBindings" ->
                IF BindingsCached(b.bindings, name)
                THEN [logged EXCEPT !.cur = b.bindings[name]]
                ELSE LET pushed == PushBindings(b.stack, model, GetBindingsCount(model))
                     IN  [logged EXCEPT
                            !.cur = pushed.bindings,
                            !.stack = pushed.stack,
                            !.bindings = Put(b.bindings, name, pushed.bindings),
                            !.pushes[name] = @ + 1,
                            !.peak = IF pushed.stack.offset > @
                                     THEN pushed.stack.offset ELSE @,
                            !.sizes = Put(b.sizes, name,
                                          [i \in 1..GetBindingsCount(model) |->
                                              GetMaxBatchSize(model)
                                              * GetBinding(model, i).bytesPerBatchItem])]
          [] statement = "beginCapture" ->
                [logged EXCEPT !.capturing = TRUE, !.recorded = <<>>]
          [] statement = "enqueue" ->
                \* ctx->enqueue(batch_size, bindings.data(), m_Stream, nullptr):
                \* recorded when the stream captures, run at once when not
                IF b.capturing
                THEN [logged EXCEPT !.recorded =
                        Append(@, [name |-> name, batch |-> batch_size,
                                   bindings |-> b.cur, ctx |-> b.ctxs[name].id,
                                   deviceMemory |-> b.ctxs[name].deviceMemory])]
                ELSE logged
          [] statement = "endCapture" ->
                \* the graph holds what was enqueued during the capture
                LET work == IF b.recorded # <<>> THEN b.recorded[1]
                            ELSE [name |-> "", batch |-> 0, bindings |-> <<>>,
                                  ctx |-> 0, deviceMemory |-> 0]
                IN  [logged EXCEPT
                        !.capturing = FALSE,
                        !.graph = [id |-> b.next, name |-> work.name,
                                   batch |-> work.batch, bindings |-> work.bindings,
                                   ctx |-> work.ctx,
                                   deviceMemory |-> work.deviceMemory],
                        !.created = @ \cup {[kind |-> "graph", id |-> b.next]},
                        !.next = @ + 1]
          [] statement = "storeGraph" ->
                [logged EXCEPT !.graphs = Put(b.graphs, key, b.graph)]
          [] statement = "resetStack" ->
                [logged EXCEPT !.stack = StackReset(b.stack)]
          [] statement = "instantiate" ->
                [logged EXCEPT
                        !.graphExec = [id |-> b.next, graph |-> b.graph.id],
                        !.created = @ \cup {[kind |-> "exec", id |-> b.next]},
                        !.next = @ + 1]
          [] statement = "storeExecutor" ->
                [logged EXCEPT !.execs = Put(b.execs, key, b.graphExec)]

RECURSIVE RunSteps(_, _, _, _, _)
\* the statements from number i on; the failing one aborts the process
RunSteps(b, key, steps, i, failing) ==
    IF i > Len(steps) THEN b
    ELSE IF steps[i] = failing
    THEN [b EXCEPT !.fatal = TRUE,
                   !.events = Append(@, [ev |-> steps[i], key |-> key])]
    ELSE RunSteps(KeyStep(b, key, steps[i]), key, steps, i + 1, failing)

\* One iteration of the loop over m_ModelsAndBatchSize, on the build state b.
BuildKey(b, key, step) ==
    RunSteps([b EXCEPT !.cur = <<>>], key, KeySteps, 1, FaultStatement(step))

RECURSIVE BuildLoop_OncePerName(_, _, _, _)
\* a key whose name already has bindings is skipped instead of built
BuildLoop_OncePerName(b, keys, i, fault) ==
    IF i > Len(keys) THEN b
    ELSE IF keys[i][1] \in DOMAIN b.bindings
    THEN BuildLoop_OncePerName(b, keys, i + 1, fault)
    ELSE IF fault.at = i THEN BuildKey(b, keys[i], fault.step)
    ELSE BuildLoop_OncePerName(BuildKey(b, keys[i], "none"), keys, i + 1, fault)

RECURSIVE BuildLoop(_, _, _, _)
\* for(const auto& item : m_ModelsAndBatchSize), from key number i on
BuildLoop(b, keys, i, fault) ==
    IF i > Len(keys) THEN b
    ELSE IF fault.at = i THEN BuildKey(b, keys[i], fault.step)
    ELSE BuildLoop(BuildKey(b, keys[i], "none"), keys, i + 1, fault)

\* the early return left out
NothingRegistered_Never == FALSE

\* if(m_Models.size() == 0) return;
NothingRegistered == Cardinality(DOMAIN m_Models) = 0

\* no key: the allocations are logged under it
NoKey == <<"", 0>>

\* DCHECK_GT(m_DeviceStackSize, 0) and DCHECK_GT(m_ActivationsSize, 0) hold
\* for every model of ModelInfo, in debug and in release builds alike.
BuildGraphs(fault) ==
    /\ ~fatal
    /\ ~Destroyed
    /\ buildCalls < MaxBuilds
    /\ buildCalls' = buildCalls + 1
    /\ UNCHANGED <<m_DeviceStackSize, m_ActivationsSize, m_Models,
                   m_ModelsAndBatchSize, modelName, registerCalls, offstage>>
    /\ IF NothingRegistered
       THEN /\ fault = NoFault
            /\ last' = Call("BuildGraphs", "", 0, "", "ok")
            /\ builtKeys' = DOMAIN m_ModelsAndBatchSize
            /\ UNCHANGED <<m_ExecutionContexts, m_BindingsStack, m_ActivationSpace,
                           m_DeviceBindings, m_Graphs, m_GraphExecutors, fatal,
                           nextHandle, pushes, buildLog>>
       ELSE LET keys == KeySeq(DOMAIN m_ModelsAndBatchSize)
                \* std::make_unique<MemoryStack<...>>(m_DeviceStackSize) and
                \* std::make_unique<Allocator<...>>(m_ActivationsSize)
                b0 == [stack |-> [alloc |-> nextHandle, size |-> m_DeviceStackSize,
                                  offset |-> 0],
                       act |-> [alloc |-> nextHandle + 1, size |-> m_ActivationsSize,
                                offset |-> 0],
                       ctxs |-> m_ExecutionContexts,
                       bindings |-> m_DeviceBindings,
                       graphs |-> m_Graphs,
                       execs |-> m_GraphExecutors,
                       pushes |-> pushes,
                       next |-> nextHandle + 2,
                       fatal |-> FALSE,
                       events |-> <<[ev |-> "allocateStack", key |-> NoKey],
                                    [ev |-> "allocateActivations", key |-> NoKey]>>,
                       created |-> created,
                       peak |-> stackPeak,
                       sizes |-> bufferSizes,
                       capturing |-> FALSE,
                       recorded |-> <<>>,
                       cur |-> <<>>,
                       graph |-> [id |-> 0, name |-> "", batch |-> 0,
                                  bindings |-> <<>>, ctx |-> 0, deviceMemory |-> 0],
                       graphExec |-> [id |-> 0, graph |-> 0]]
            IN  /\ fault \in Faults(Len(keys))
                /\ \E b \in {BuildLoop(b0, keys, 1, fault)} :
                    /\ m_BindingsStack' = b.stack
                    /\ m_ActivationSpace' = b.act
                    /\ m_ExecutionContexts' = b.ctxs
                    /\ m_DeviceBindings' = b.bindings
                    /\ m_Graphs' = b.graphs
                    /\ m_GraphExecutors' = b.execs
                    /\ pushes' = b.pushes
                    /\ nextHandle' = b.next
                    /\ fatal' = b.fatal
                    /\ events' = b.events
                    /\ created' = b.created
                    /\ stackPeak' = b.peak
                    /\ bufferSizes' = b.sizes
                    /\ last' = Call("BuildGraphs", "", 0, "",
                                    IF b.fatal THEN "fatal" ELSE "ok")
                    /\ builtKeys' = IF b.fatal THEN builtKeys
                                    ELSE DOMAIN m_ModelsAndBatchSize

\* -------------------------------------------------------------- accessors
\* the name searched in the bindings cache
IsModelRegistered_InBindings(name) == name \in DOMAIN m_DeviceBindings

\* search != m_Models.end()
IsModelRegistered(name) == name \in DOMAIN m_Models

IsGraphAvailable(name, batch_size) ==
    MakeKey(name, batch_size) \in DOMAIN m_GraphExecutors

\* a query returns its answer and touches nothing
Query(op, name, batch_size, answer) ==
    /\ ~fatal
    /\ last' = Call(op, name, batch_size, "", IF answer THEN "true" ELSE "false")
    /\ ~Destroyed
    /\ UNCHANGED <<workspace, fatal, history, buildLog, offstage>>

CallIsModelRegistered(name) ==
    Query("IsModelRegistered", name, 0, IsModelRegistered(name))

CallIsGraphAvailable(name, batch_size) ==
    Query("IsGraphAvailable", name, batch_size, IsGraphAvailable(name, batch_size))

\* search == m_GraphExecutors.end() throws, else search->second is returned
GetGraphOutcome(name, batch_size) ==
    IF MakeKey(name, batch_size) \in DOMAIN m_GraphExecutors THEN "ok" ELSE "notfound"

\* search == m_DeviceBindings.end() throws, else search->second is returned
DeviceBindingsOutcome(name) ==
    IF name \in DOMAIN m_DeviceBindings THEN "ok" ELSE "notfound"

\* the lookup written m_GraphExecutors[key]: a missing key is inserted
GetGraph_Insert(name, batch_size) ==
    LET key == MakeKey(name, batch_size)
    IN  /\ ~fatal
        /\ ~Destroyed
        /\ last' = Call("GetGraph", name, batch_size, "", "ok")
        /\ m_GraphExecutors' =
               IF key \in DOMAIN m_GraphExecutors THEN m_GraphExecutors
               ELSE Put(m_GraphExecutors, key, [id |-> 0, graph |-> 0])
        /\ UNCHANGED <<m_DeviceStackSize, m_ActivationsSize, m_Models,
                       m_ExecutionContexts, m_ModelsAndBatchSize, m_BindingsStack,
                       m_ActivationSpace, m_DeviceBindings, m_Graphs, modelName,
                       fatal, history, buildLog, offstage>>

\* throw std::runtime_error(...): the caller gets the error, the process lives
GetGraph(name, batch_size) ==
    /\ ~fatal
    /\ last' = Call("GetGraph", name, batch_size, "", GetGraphOutcome(name, batch_size))
    /\ ~Destroyed
    /\ UNCHANGED <<workspace, fatal, history, buildLog, offstage>>

DeviceBindingsByName(name) ==
    /\ ~fatal
    /\ last' = Call("DeviceBindingsByName", name, 0, "", DeviceBindingsOutcome(name))
    /\ ~Destroyed
    /\ UNCHANGED <<workspace, fatal, history, buildLog, offstage>>

\* what a successful lookup hands back
GetGraphValue(name, batch_size) == m_GraphExecutors[MakeKey(name, batch_size)]
DeviceBindingsValue(name) == m_DeviceBindings[name]

\* ------------------------------------------------------------ destructor
RECURSIVE Destroys(_, _, _)
\* for(auto& item : map) destroy(item.second), in the map's order
Destroys(ev, map, keys) ==
    IF keys = <<>> THEN <<>>
    ELSE <<[ev |-> ev, id |-> map[Head(keys)].id]>> \o Destroys(ev, map, Tail(keys))

\* the body of the destructor, in program order
DestructorBody ==
    <<[ev |-> "cudaStreamSynchronize", id |-> 0]>>
    \o Destroys("cudaGraphExecDestroy", m_GraphExecutors,
                KeySeq(DOMAIN m_GraphExecutors))
    \o Destroys("cudaGraphDestroy", m_Graphs, KeySeq(DOMAIN m_Graphs))
    \o <<[ev |-> "cudaStreamDestroy", id |-> 0]>>

\* the members' destructors run after the body: the two unique_ptr free
\* their device allocation (when set), in one order or the other
FreeMembers(stackFirst) ==
    LET stack == IF m_BindingsStack.alloc # 0
                 THEN <<[ev |-> "free", id |-> m_BindingsStack.alloc]>> ELSE <<>>
        act == IF m_ActivationSpace.alloc # 0
               THEN <<[ev |-> "free", id |-> m_ActivationSpace.alloc]>> ELSE <<>>
    IN  IF stackFirst THEN stack \o act ELSE act \o stack

Destructor(stackFirst) ==
    /\ ~fatal
    /\ ~Destroyed
    /\ released' = DestructorBody \o FreeMembers(stackFirst)
    /\ last' = Call("~GraphWorkspace", "", 0, "", "ok")
    /\ UNCHANGED <<workspace, fatal, history, buildLog, callers, rpc>>

\* ---------------------------------------------------------- serving threads
\* The build is over and the serving threads are started.
StartServing ==
    /\ ~fatal
    /\ ~Destroyed
    /\ ~serving
    /\ buildCalls > 0
    /\ serving' = TRUE
    /\ frozen' = workspace
    /\ UNCHANGED <<workspace, fatal, last, history, buildLog, released, threads, rpc>>

\* thread t enters an accessor
ThreadCall(t, op, name, batch_size) ==
    /\ serving
    /\ threads[t].pc = "idle"
    /\ threads' = [threads EXCEPT ![t] = [pc |-> "called", op |-> op, name |-> name,
                                          batch |-> batch_size, result |-> "",
                                          value |-> <<>>]]
    /\ UNCHANGED <<workspace, fatal, last, history, buildLog, released, serving, frozen, rpc>>

\* what the accessor op hands its caller, on the maps as they are now
Answer(op, name, batch_size) ==
    CASE op = "IsModelRegistered" ->
            [result |-> IF IsModelRegistered(name) THEN "true" ELSE "false",
             value |-> <<>>]
      [] op = "IsGraphAvailable" ->
            [result |-> IF IsGraphAvailable(name, batch_size) THEN "true" ELSE "false",
             value |-> <<>>]
      [] op = "GetGraph" ->
            [result |-> GetGraphOutcome(name, batch_size),
             value |-> IF GetGraphOutcome(name, batch_size) = "ok"
                       THEN <<GetGraphValue(name, batch_size)>> ELSE <<>>]
      [] op = "DeviceBindingsByName" ->
            [result |-> DeviceBindingsOutcome(name),
             value |-> IF DeviceBindingsOutcome(name) = "ok"
                       THEN <<DeviceBindingsValue(name)>> ELSE <<>>]

\* GetGraph written m_GraphExecutors[key]: a thread that misses inserts the key
ThreadLookup_Insert(t) ==
    LET c == threads[t]
        key == MakeKey(c.name, c.batch)
        miss == c.op = "GetGraph" /\ key \notin DOMAIN m_GraphExecutors
        a == IF miss THEN [result |-> "ok", value |-> <<[id |-> 0, graph |-> 0]>>]
             ELSE Answer(c.op, c.name, c.batch)
    IN  /\ serving
        /\ c.pc = "called"
        /\ threads' = [threads EXCEPT ![t].pc = "returned",
                                      ![t].result = a.result, ![t].value = a.value]
        /\ m_GraphExecutors' = IF miss THEN Put(m_GraphExecutors, key, a.value[1])
                               ELSE m_GraphExecutors
        /\ UNCHANGED <<m_DeviceStackSize, m_ActivationsSize, m_Models,
                       m_ExecutionContexts, m_ModelsAndBatchSize, m_BindingsStack,
                       m_ActivationSpace, m_DeviceBindings, m_Graphs, modelName,
                       fatal, last, history, buildLog, released, serving, frozen, rpc>>

\* thread t searches the map of its accessor: find() and the return or throw
ThreadLookup(t) ==
    LET c == threads[t]
        a == Answer(c.op, c.name, c.batch)
    IN  /\ serving
        /\ c.pc = "called"
        /\ threads' = [threads EXCEPT ![t].pc = "returned",
                                      ![t].result = a.result, ![t].value = a.value]
        /\ UNCHANGED <<workspace, fatal, last, history, buildLog, released,
                       serving, frozen, rpc>>

\* thread t is done with what it got
ThreadReturn(t) ==
    /\ serving
    /\ threads[t].pc = "returned"
    /\ threads' = [threads EXCEPT ![t] = Idle]
    /\ UNCHANGED <<workspace, fatal, last, history, buildLog, released, serving, frozen, rpc>>

Next ==
    \/ \E name \in Names, model \in ModelIds, batch_size \in BatchSizes :
           RegisterModel(name, model, batch_size)
    \/ \E fault \in Faults(MaxRegistrations) : BuildGraphs(fault)
    \/ \E name \in Names : CallIsModelRegistered(name)
    \/ \E name \in Names, batch_size \in BatchSizes :
           CallIsGraphAvailable(name, batch_size)
    \/ \E name \in Names, batch_size \in BatchSizes : GetGraph(name, batch_size)
    \/ \E name \in Names : DeviceBindingsByName(name)
    \/ \E stackFirst \in BOOLEAN : Destructor(stackFirst)

Spec == Init /\ [][Next]_vars

\* Registration and the one build by one thread, then the serving threads.
\* the accessors by name alone are called without a batch size
BatchArgs(op) ==
    IF op \in {"IsModelRegistered", "DeviceBindingsByName"} THEN {0} ELSE BatchSizes
Accessors == {"IsModelRegistered", "IsGraphAvailable", "GetGraph", "DeviceBindingsByName"}
ServeNext ==
    \/ \E name \in Names, model \in ModelIds, batch_size \in BatchSizes :
           ~serving /\ RegisterModel(name, model, batch_size)
    \/ \E fault \in Faults(MaxRegistrations) :
           ~serving /\ buildCalls = 0 /\ BuildGraphs(fault)
    \/ StartServing
    \/ \E t \in Threads, op \in Accessors, name \in Names :
           \E batch_size \in BatchArgs(op) : ThreadCall(t, op, name, batch_size)
    \/ \E t \in Threads : ThreadLookup(t)
    \/ \E t \in Threads : ThreadReturn(t)

ServeSpec == Init /\ [][ServeNext]_vars

\* ------------------------------------------------------- RPC server tests
\* TEST_F(ServerTest, ...): the test thread, the one thread of
\* m_BackgroundThreads and the server they share.  Server is an external
\* collaborator: AsyncStart and Run start it, Run then calls its callback,
\* once and again while the server runs, and returns when it is shut down;
\* Shutdown stops it.
Tests == {"AsyncStartAndShutdown", "RunAndShutdown"}
graphWorkspace == <<workspace, fatal, last, history, buildLog, released, callers>>

\* ServerTest::SetUp: a thread pool of one and a server built, not started
SetUp(t) ==
    /\ test = ""
    /\ test' = t
    /\ mainPc' = "expectStopped"
    /\ bgPc' = "idle"
    /\ serverRunning' = FALSE
    /\ UNCHANGED <<graphWorkspace, running, mutex, callbacks, expects>>

\* the EXPECT_FALSE / EXPECT_TRUE of the test body at place pc
Expected(pc) == pc = "expectRunning"
AfterExpect(pc) ==
    CASE pc = "expectStopped" ->
            IF test = "AsyncStartAndShutdown" THEN "asyncStart" ELSE "enqueue"
      [] pc = "expectRunning" -> "shutdown"
      [] pc = "expectStoppedAgain" -> "done"

\* EXPECT_...(m_Server->Running())
Expect ==
    /\ mainPc \in {"expectStopped", "expectRunning", "expectStoppedAgain"}
    /\ expects' = Append(expects, [at |-> mainPc, expected |-> Expected(mainPc),
                                   got |-> serverRunning])
    /\ mainPc' = AfterExpect(mainPc)
    /\ UNCHANGED <<graphWorkspace, test, bgPc, serverRunning, running, mutex, callbacks>>

\* m_Server->AsyncStart()
AsyncStart ==
    /\ mainPc = "asyncStart"
    /\ serverRunning' = TRUE
    /\ mainPc' = "expectRunning"
    /\ UNCHANGED <<graphWorkspace, test, bgPc, running, mutex, callbacks, expects>>

\* m_Server->Shutdown()
Shutdown ==
    /\ mainPc = "shutdown"
    /\ serverRunning' = FALSE
    /\ mainPc' = "expectStoppedAgain"
    /\ UNCHANGED <<graphWorkspace, test, bgPc, running, mutex, callbacks, expects>>

\* m_BackgroundThreads->enqueue([&, this] { m_Server->Run(...); })
Enqueue ==
    /\ mainPc = "enqueue"
    /\ bgPc' = "run"
    /\ mainPc' = "lock"
    /\ UNCHANGED <<graphWorkspace, test, serverRunning, running, mutex, callbacks, expects>>

\* std::unique_lock<std::mutex> lock(mutex)
Lock ==
    /\ mainPc = "lock"
    /\ mutex = "free"
    /\ mutex' = "main"
    /\ mainPc' = "wait"
    /\ UNCHANGED <<graphWorkspace, test, bgPc, serverRunning, running, callbacks, expects>>

\* the wait returns without looking at `running`
WaitPredicate_Ignored == TRUE

\* [&running]{ return running; }
WaitPredicate == running

\* condition.wait(lock, pred): returns with the mutex held when pred holds,
\* else releases the mutex and blocks
Wait ==
    /\ mainPc = "wait"
    /\ IF WaitPredicate
       THEN mainPc' = "unlock" /\ mutex' = mutex
       ELSE mainPc' = "blocked" /\ mutex' = "free"
    /\ UNCHANGED <<graphWorkspace, test, bgPc, serverRunning, running, callbacks, expects>>

\* the blocked wait wakes, by notify_all or spuriously, takes the mutex
\* and looks at the predicate again
Wake ==
    /\ mainPc = "blocked"
    /\ mutex = "free"
    /\ mutex' = "main"
    /\ mainPc' = "wait"
    /\ UNCHANGED <<graphWorkspace, test, bgPc, serverRunning, running, callbacks, expects>>

\* the end of the scope of `lock`
Unlock ==
    /\ mainPc = "unlock"
    /\ mutex' = "free"
    /\ mainPc' = "expectRunning"
    /\ UNCHANGED <<graphWorkspace, test, bgPc, serverRunning, running, callbacks, expects>>

\* the background thread takes the task: m_Server->Run(1ms, callback) starts
\* the server and goes on to call the callback
RunStart ==
    /\ bgPc = "run"
    /\ serverRunning' = TRUE
    /\ bgPc' = "callbackLock"
    /\ UNCHANGED <<graphWorkspace, test, mainPc, running, mutex, callbacks, expects>>

\* std::lock_guard<std::mutex> lock(mutex)
CallbackLock ==
    /\ bgPc = "callbackLock"
    /\ mutex = "free"
    /\ mutex' = "background"
    /\ bgPc' = "callbackSet"
    /\ UNCHANGED <<graphWorkspace, test, mainPc, serverRunning, running, callbacks, expects>>

\* running = true
CallbackSet ==
    /\ bgPc = "callbackSet"
    /\ running' = TRUE
    /\ bgPc' = "callbackUnlock"
    /\ UNCHANGED <<graphWorkspace, test, mainPc, serverRunning, mutex, callbacks, expects>>

\* the end of the scope of the lock_guard
CallbackUnlock ==
    /\ bgPc = "callbackUnlock"
    /\ mutex' = "free"
    /\ bgPc' = "callbackNotify"
    /\ UNCHANGED <<graphWorkspace, test, mainPc, serverRunning, running, callbacks, expects>>

\* condition.notify_all(); the callback returns to Run
CallbackNotify ==
    /\ bgPc = "callbackNotify"
    /\ callbacks' = callbacks + 1
    /\ bgPc' = "waitForShutdown"
    /\ UNCHANGED <<graphWorkspace, test, mainPc, serverRunning, running, mutex, expects>>

\* Run between two callbacks: it returns when the server was shut down and
\* else calls the callback again when its timeout of 1 ms has passed
RunWait ==
    /\ bgPc = "waitForShutdown"
    /\ IF ~serverRunning
       THEN bgPc' = "returned"
       ELSE callbacks < MaxCallbacks /\ bgPc' = "callbackLock"
    /\ UNCHANGED <<graphWorkspace, test, mainPc, serverRunning, running, mutex, callbacks, expects>>

ServerNext ==
    \/ \E t \in Tests : SetUp(t)
    \/ Expect
    \/ AsyncStart
    \/ Shutdown
    \/ Enqueue
    \/ Lock
    \/ Wait
    \/ Wake
    \/ Unlock
    \/ RunStart
    \/ CallbackLock
    \/ CallbackSet
    \/ CallbackUnlock
    \/ CallbackNotify
    \/ RunWait

ServerSpec == Init /\ [][ServerNext]_vars

\* ================================================================ claims
\* Steps are told apart by what they count or record: a RegisterModel call
\* raises registerCalls, a BuildGraphs call raises buildCalls, a lookup
\* writes itself to `last`.  The arguments of a call are in last'.
RegisterStep == registerCalls' = registerCalls + 1
BuildStep == buildCalls' = buildCalls + 1
LookupStep(op) == last' # last /\ last'.op = op

\* the Device Memory Stack or the Activation Allocator exists
AllocationExists == m_BindingsStack # NullAlloc \/ m_ActivationSpace # NullAlloc
Registered == DOMAIN m_ModelsAndBatchSize
RegistrationMaps == <<m_Models, m_ExecutionContexts, m_ModelsAndBatchSize>>

\* C1: while the process lives, a key has a graph executor (IsGraphAvailable
\* is true and GetGraph succeeds) exactly when it is registered and a
\* BuildGraphs call returned after its registration; no key has one before
\* the first BuildGraphs call, and none outside the registered keys has one.
C1_GraphIffRegisteredAndBuilt ==
    /\ ~fatal =>
         \A key \in Keys :
            LET built == key \in Registered /\ key \in builtKeys
            IN  /\ IsGraphAvailable(key[1], key[2]) <=> built
                /\ GetGraphOutcome(key[1], key[2]) = "ok" <=> built
    /\ buildCalls = 0 => DOMAIN m_GraphExecutors = {}
    /\ DOMAIN m_GraphExecutors \subseteq Registered

\* two batch sizes of one name, both built and one fetched
C1_Witness ==
    /\ ~fatal
    /\ last.op = "GetGraph" /\ last.result = "ok"
    /\ Cardinality(DOMAIN m_GraphExecutors) = 2
    /\ \E a, b \in DOMAIN m_GraphExecutors : a # b /\ a[1] = b[1]

\* C2: once the Device Memory Stack or the Activation Allocator exists it
\* exists for good, and every RegisterModel call from then on aborts and
\* registers nothing.
C2_RegisterAfterAllocationFatal ==
    [][/\ AllocationExists => AllocationExists'
       /\ (AllocationExists /\ RegisterStep) =>
              /\ fatal'
              /\ last'.result = "fatal"
              /\ UNCHANGED RegistrationMaps]_vars

\* a registration of a new, well-sized key refused after a build
C2_Witness ==
    /\ fatal
    /\ last.op = "RegisterModel"
    /\ AllocationExists
    /\ MakeKey(last.name, last.batch) \notin Registered
    /\ last.batch <= GetMaxBatchSize(last.model)

\* C3 as stated: every RegisterModel call made after any BuildGraphs call
\* aborts.
C3_RegisterAfterAnyBuildFatal ==
    [][(buildCalls > 0 /\ RegisterStep) => fatal']_vars

\* C3 amended: a RegisterModel call made after a BuildGraphs call that found
\* a registered model aborts, whatever was registered; after BuildGraphs
\* calls that all found nothing registered, a RegisterModel of a new key
\* with batch size within the model's maximum is accepted.
C3_RegisterAfterNonEmptyBuildFatal ==
    [][RegisterStep =>
          /\ builtKeys # {} => (fatal' /\ UNCHANGED RegistrationMaps)
          /\ (/\ buildCalls > 0
              /\ builtKeys = {}
              /\ MakeKey(last'.name, last'.batch) \notin Registered
              /\ last'.batch <= GetMaxBatchSize(last'.model)) =>
                 /\ ~fatal'
                 /\ MakeKey(last'.name, last'.batch) \in Registered']_vars

\* a registration accepted after a BuildGraphs call that found nothing
C3_Witness ==
    /\ ~fatal
    /\ last.op = "RegisterModel" /\ last.result = "ok"
    /\ buildCalls > 0
    /\ builtKeys = {}

\* C4: a RegisterModel call with a batch size above the model's maximum
\* aborts and registers nothing, and no registered key has a batch size
\* above the maximum of the model stored under it.
C4_BatchAboveMaxFatal ==
    /\ [](\A key \in Registered :
              key[2] <= GetMaxBatchSize(m_ModelsAndBatchSize[key]))
    /\ [][(RegisterStep /\ last'.batch > GetMaxBatchSize(last'.model)) =>
              /\ fatal'
              /\ UNCHANGED RegistrationMaps]_vars

\* batch 2 of a model whose maximum is 1, refused before any build
C4_Witness ==
    /\ fatal
    /\ last.op = "RegisterModel"
    /\ last.batch > GetMaxBatchSize(last.model)
    /\ ~AllocationExists
    /\ MakeKey(last.name, last.batch) \notin Registered

\* C5: a RegisterModel call for a (name, batch size) pair that is already
\* registered aborts, whatever model it passes, and the model bound to a
\* registered key never changes.
C5_DuplicateKeyFatal ==
    [][/\ (RegisterStep /\ MakeKey(last'.name, last'.batch) \in Registered) =>
              /\ fatal'
              /\ UNCHANGED RegistrationMaps
       /\ \A key \in Registered :
              /\ key \in Registered'
              /\ m_ModelsAndBatchSize'[key] = m_ModelsAndBatchSize[key]]_vars

\* the pair registered again with another model, another key in between
C5_Witness ==
    /\ fatal
    /\ last.op = "RegisterModel"
    /\ ~AllocationExists
    /\ last.batch <= GetMaxBatchSize(last.model)
    /\ MakeKey(last.name, last.batch) \in Registered
    /\ m_ModelsAndBatchSize[MakeKey(last.name, last.batch)] # last.model
    /\ Cardinality(Registered) = 2

\* C6: a RegisterModel call that aborts has changed nothing: the two marks,
\* the three registration maps, the caches and the models' names are as
\* before the call.
C6_FatalRegisterMutatesNothing ==
    [][(RegisterStep /\ fatal') => UNCHANGED workspace]_vars

\* an aborted registration whose model would have raised a mark and would
\* have been renamed
C6_Witness ==
    /\ fatal
    /\ last.op = "RegisterModel"
    /\ Registered # {}
    /\ DeviceRequirement(last.model) > m_DeviceStackSize
    /\ modelName[last.model] # last.name

\* C7 as stated: a RegisterModel call for a name that is already registered
\* aborts, and the model and execution context stored under a name are
\* never replaced.
C7_ReRegisterNameFatal ==
    [][/\ (RegisterStep /\ last'.name \in DOMAIN m_Models) => fatal'
       /\ \A n \in DOMAIN m_Models :
              /\ m_Models'[n] = m_Models[n]
              /\ m_ExecutionContexts'[n] = m_ExecutionContexts[n]]_vars

\* C7 amended: a RegisterModel call for a name that is already registered
\* aborts exactly when an allocation exists, the batch size is above the
\* model's maximum or the (name, batch size) pair is already registered;
\* otherwise it is accepted, and the name is rebound to the model passed
\* and to a newly created execution context.
C7_ReRegisterNameNewBatchAccepted ==
    [][(RegisterStep /\ last'.name \in DOMAIN m_Models) =>
          IF \/ AllocationExists
             \/ last'.batch > GetMaxBatchSize(last'.model)
             \/ MakeKey(last'.name, last'.batch) \in Registered
          THEN fatal' /\ UNCHANGED RegistrationMaps
          ELSE /\ ~fatal'
               /\ MakeKey(last'.name, last'.batch) \in Registered'
               /\ m_Models'[last'.name] = last'.model
               /\ m_ExecutionContexts'[last'.name].model = last'.model
               /\ \A n \in DOMAIN m_ExecutionContexts :
                      m_ExecutionContexts'[last'.name].id # m_ExecutionContexts[n].id]_vars

\* a name registered at two batch sizes with two different models
C7_Witness ==
    /\ ~fatal
    /\ last.op = "RegisterModel" /\ last.result = "ok"
    /\ \E key \in Registered :
          /\ key[1] = last.name
          /\ key[2] # last.batch
          /\ m_ModelsAndBatchSize[key] # m_Models[last.name]

\* size rounded up to the next multiple of boundary
RoundUp(size, boundary) == ((size + boundary - 1) \div boundary) * boundary
SetMax(S) == IF S = {} THEN 0 ELSE CHOOSE x \in S : \A y \in S : y <= x
RegisteredModels == {m_ModelsAndBatchSize[key] : key \in Registered}
BindingNeed(model) ==
    RoundUp(GetBindingMemorySize(model) + GetBindingsCount(model) * DeviceAlignment,
            128 * 1024)
ActivationNeed(model) == RoundUp(GetActivationsMemorySize(model), 128 * 1024)

\* C8: the binding-stack capacity is the maximum over the registered models
\* of their aligned binding requirement and the activation capacity the
\* maximum of their aligned activation requirement, 0 when nothing is
\* registered; neither ever decreases, and neither changes once an
\* allocation exists.
C8_SizingIsMaximum ==
    /\ [](/\ m_DeviceStackSize = SetMax({BindingNeed(m) : m \in RegisteredModels})
          /\ m_ActivationsSize = SetMax({ActivationNeed(m) : m \in RegisteredModels}))
    /\ [][/\ m_DeviceStackSize' >= m_DeviceStackSize
          /\ m_ActivationsSize' >= m_ActivationsSize
          /\ AllocationExists => UNCHANGED <<m_DeviceStackSize, m_ActivationsSize>>]_vars

\* two models registered, the smaller one last, and the build done
C8_Witness ==
    /\ ~fatal
    /\ AllocationExists
    /\ Cardinality(RegisteredModels) = 2
    /\ \E m \in RegisteredModels :
          /\ BindingNeed(m) < m_DeviceStackSize
          /\ ActivationNeed(m) < m_ActivationsSize
          /\ m_Models[modelName[m]] = m
          /\ \A n \in DOMAIN m_ExecutionContexts :
                 m_ExecutionContexts[n].id <= m_ExecutionContexts[modelName[m]].id

\* the first key of a name in the order the build visits the keys
FirstKey(name) ==
    CHOOSE key \in Registered :
        /\ key[1] = name
        /\ \A other \in Registered : other[1] = name => key[2] <= other[2]

\* C9: the bindings of a name are pushed on the Device Memory Stack exactly
\* once, when the first key of that name is built; they hold one address per
\* binding slot of the model of that key; every graph of the name is
\* captured against them; and once cached they never change.
C9_BindingsOncePerName ==
    /\ [](/\ \A n \in Names :
                /\ pushes[n] <= 1
                /\ pushes[n] = 1 <=> n \in DOMAIN m_DeviceBindings
          /\ \A n \in DOMAIN m_DeviceBindings :
                Len(m_DeviceBindings[n])
                    = GetBindingsCount(m_ModelsAndBatchSize[FirstKey(n)])
          /\ \A key \in DOMAIN m_Graphs :
                m_Graphs[key].bindings = m_DeviceBindings[key[1]])
    /\ [][\A n \in DOMAIN m_DeviceBindings :
              /\ n \in DOMAIN m_DeviceBindings'
              /\ m_DeviceBindings'[n] = m_DeviceBindings[n]]_vars

\* a name built at two batch sizes, built a second time, and looked up
C9_Witness ==
    /\ ~fatal
    /\ last.op = "DeviceBindingsByName" /\ last.result = "ok"
    /\ buildCalls = 2
    /\ Cardinality({key \in DOMAIN m_Graphs : key[1] = last.name}) = 2

\* C10: GetGraph for a key without a graph executor and
\* DeviceBindingsByName for a name without cached bindings return the
\* not-found error to the caller: the process is not aborted and nothing of
\* the workspace changes.
C10_LookupMissRecoverable ==
    [][/\ (/\ LookupStep("GetGraph")
           /\ MakeKey(last'.name, last'.batch) \notin DOMAIN m_GraphExecutors) =>
              /\ last'.result = "notfound"
              /\ ~fatal'
              /\ UNCHANGED <<workspace, history>>
       /\ (/\ LookupStep("DeviceBindingsByName")
           /\ last'.name \notin DOMAIN m_DeviceBindings) =>
              /\ last'.result = "notfound"
              /\ ~fatal'
              /\ UNCHANGED <<workspace, history>>]_vars

\* a miss on a registered name whose other key has a graph
C10_Witness ==
    /\ ~fatal
    /\ last.op = "GetGraph" /\ last.result = "notfound"
    /\ IsModelRegistered(last.name)
    /\ \E key \in DOMAIN m_GraphExecutors : key[1] = last.name

\* C11: a BuildGraphs call made while nothing is registered changes nothing:
\* it returns without an abort, creates no device allocation and no handle,
\* pushes no bindings, and leaves every map and both marks as they were.
C11_EmptyBuildIsNoOp ==
    [][(BuildStep /\ Registered = {}) =>
          /\ ~fatal'
          /\ last'.result = "ok"
          /\ ~AllocationExists'
          /\ UNCHANGED <<workspace, nextHandle, pushes>>]_vars

\* the second of two BuildGraphs calls on a workspace without a model
C11_Witness ==
    /\ ~fatal
    /\ last.op = "BuildGraphs" /\ last.result = "ok"
    /\ Registered = {}
    /\ buildCalls = 2

\* C13: once a BuildGraphs call has built the registered keys, no later call
\* replaces the Device Memory Stack or the Activation Allocator, none
\* replaces a stored graph or graph executor, and every cached binding
\* address stays inside the live Device Memory Stack allocation.
C13_BuildOnce ==
    [][builtKeys # {} =>
          /\ m_BindingsStack'.alloc = m_BindingsStack.alloc
          /\ m_ActivationSpace' = m_ActivationSpace
          /\ m_Graphs' = m_Graphs
          /\ m_GraphExecutors' = m_GraphExecutors
          /\ \A n \in DOMAIN m_DeviceBindings' :
                \A i \in 1..Len(m_DeviceBindings'[n]) :
                    m_DeviceBindings'[n][i].alloc = m_BindingsStack'.alloc]_vars

\* the positions of `released` holding event ev (of handle id, when given)
ReleasesOf(ev) == {i \in 1..Len(released) : released[i].ev = ev}
ReleasesOfHandle(ev, id) == {i \in ReleasesOf(ev) : released[i].id = id}
DestroyCall(kind) ==
    IF kind = "graph" THEN "cudaGraphDestroy" ELSE "cudaGraphExecDestroy"

\* C14: the destructor synchronizes the stream before it releases anything,
\* then releases the graphs, then the graph executors, then the two device
\* allocations; every graph and executor ever created is released exactly
\* once.
C14_TeardownReleasesAll ==
    Destroyed =>
        /\ released[1].ev = "cudaStreamSynchronize"
        /\ ReleasesOf("cudaStreamSynchronize") = {1}
        /\ \A i \in ReleasesOf("cudaGraphDestroy") :
              \A j \in ReleasesOf("cudaGraphExecDestroy") : i < j
        /\ \A i \in ReleasesOf("cudaGraphDestroy") \cup ReleasesOf("cudaGraphExecDestroy") :
              \A j \in ReleasesOf("free") : i < j
        /\ \A h \in created :
              Cardinality(ReleasesOfHandle(DestroyCall(h.kind), h.id)) = 1
        /\ AllocationExists =>
              /\ Cardinality(ReleasesOfHandle("free", m_BindingsStack.alloc)) = 1
              /\ Cardinality(ReleasesOfHandle("free", m_ActivationSpace.alloc)) = 1

\* C14, the part a repeated BuildGraphs breaks on its own: every graph and
\* executor ever created is released exactly once by the destructor.
C14_EveryHandleReleasedOnce ==
    Destroyed =>
        \A h \in created :
            Cardinality(ReleasesOfHandle(DestroyCall(h.kind), h.id)) = 1

\* the address range of binding slot i of name n: its device allocation, its
\* first byte and the byte after its last
Range(n, i) ==
    [alloc |-> m_DeviceBindings[n][i].alloc,
     from  |-> m_DeviceBindings[n][i].off,
     to    |-> m_DeviceBindings[n][i].off + bufferSizes[n][i]]
Overlap(r, q) == r.alloc = q.alloc /\ r.from < q.to /\ q.from < r.to
Slots(n) == 1..Len(m_DeviceBindings[n])

\* C16 as stated: the binding ranges cached for two different names are
\* disjoint.
C16_NamesDoNotAlias ==
    \A n, o \in DOMAIN m_DeviceBindings :
        n # o => \A i \in Slots(n), j \in Slots(o) : ~Overlap(Range(n, i), Range(o, j))

\* C16 amended: the stack is rewound after every key, so the bindings of
\* every name start at offset zero of one and the same device allocation,
\* and the first slots of any two names with cached bindings overlap.
C16_NamesAliasAtOffsetZero ==
    /\ \A n \in DOMAIN m_DeviceBindings :
          /\ Range(n, 1).from = 0
          /\ Range(n, 1).to > 0
    /\ \A n, o \in DOMAIN m_DeviceBindings :
          /\ Range(n, 1).alloc = Range(o, 1).alloc
          /\ Overlap(Range(n, 1), Range(o, 1))

\* two names built by one BuildGraphs call
C16_Witness ==
    /\ ~fatal
    /\ builtKeys # {}
    /\ DOMAIN m_DeviceBindings = Names
    /\ m_ModelsAndBatchSize[FirstKey("A")] # m_ModelsAndBatchSize[FirstKey("B")]

\* C17: the Device Memory Stack has the frozen binding-stack capacity and no
\* build pushes beyond it; the bindings of a name start at offset zero, each
\* is aligned, the ranges of the slots of one name are pairwise disjoint and
\* the last one ends within the capacity.
C17_StackNeverOverflows ==
    /\ stackPeak <= m_DeviceStackSize
    /\ AllocationExists => m_BindingsStack.size = m_DeviceStackSize
    /\ \A n \in DOMAIN m_DeviceBindings :
          /\ Range(n, 1).from = 0
          /\ \A i \in Slots(n) :
                /\ Range(n, i).from % DeviceAlignment = 0
                /\ Range(n, i).to <= m_DeviceStackSize
                /\ \A j \in Slots(n) : i < j => Range(n, i).to <= Range(n, j).from

\* the three-slot model and the model whose slots sum up to just below the
\* coarse boundary, both built
C17_Witness ==
    /\ ~fatal
    /\ stackPeak > CoarseAlignment
    /\ \E n, o \in DOMAIN m_DeviceBindings :
          /\ Len(m_DeviceBindings[n]) = 3
          /\ Len(m_DeviceBindings[o]) = 2
          /\ Range(o, 2).to > CoarseAlignment

\* C19: every graph was captured against one buffer per binding slot of the
\* model registered under its key, each at least batch size times
\* bytesPerBatchItem of that slot.
C19_BuffersFitRegisteredModel ==
    \A key \in DOMAIN m_Graphs :
        LET model == m_ModelsAndBatchSize[key]
            graph == m_Graphs[key]
        IN  \A i \in 1..GetBindingsCount(model) :
                /\ i <= Len(graph.bindings)
                /\ graph.bindings[i] = m_DeviceBindings[key[1]][i]
                /\ bufferSizes[key[1]][i]
                       >= key[2] * GetBinding(model, i).bytesPerBatchItem

\* C20: while the process lives, a name is registered exactly when a key of
\* it is, the execution contexts are one per registered name, the keys with
\* a graph are the keys with a graph executor, and a name has cached
\* bindings only if it is registered and a key of it has a graph.
C20_MapsConsistent ==
    ~fatal =>
        /\ \A n \in Names :
              IsModelRegistered(n) <=> \E key \in Registered : key[1] = n
        /\ DOMAIN m_ExecutionContexts = {key[1] : key \in Registered}
        /\ \A n, o \in DOMAIN m_ExecutionContexts :
              n # o => m_ExecutionContexts[n].id # m_ExecutionContexts[o].id
        /\ DOMAIN m_Graphs = DOMAIN m_GraphExecutors
        /\ \A n \in DOMAIN m_DeviceBindings :
              /\ \E key \in Registered : key[1] = n
              /\ \E key \in DOMAIN m_Graphs : key[1] = n

\* two names registered, one built at its only key, and a registration query
C20_Witness ==
    /\ ~fatal
    /\ last.op = "IsModelRegistered" /\ last.result = "true"
    /\ Cardinality(DOMAIN m_Models) = 2
    /\ DOMAIN m_Graphs = Registered

\* the positions of the event ev of key in the record of the last build
At(ev, key) == {i \in 1..Len(events) : events[i] = [ev |-> ev, key |-> key]}
Before(ev, i) == \E j \in At(ev, events[i].key) : j < i
After(ev, i) == \E j \in At(ev, events[i].key) : j > i
Allocations == {"allocateStack", "allocateActivations"}

\* C18: a build creates both device allocations first, with every
\* registration made; for each key the context is pointed at the activation
\* base and the bindings are resolved before the capture begins, the enqueue
\* is between begin and end of the capture, the graph is instantiated after
\* the end, captures of two keys do not overlap; when BuildGraphs returns
\* the stream does not capture and the stack offset is zero.
C18_BuildOrder ==
    /\ events # <<>> =>
          /\ {events[1].ev, events[2].ev} = Allocations
          /\ \A i \in 3..Len(events) :
                /\ events[i].ev \notin Allocations
                /\ events[i].key \in Registered
          /\ ~fatal => \A key \in Registered : At("beginCapture", key) # {}
    /\ \A i \in 1..Len(events) :
          /\ events[i].ev = "beginCapture" =>
                /\ Before("setDeviceMemory", i)
                /\ Before("resolveBindings", i)
                /\ ~Before("enqueue", i)
          /\ events[i].ev = "enqueue" =>
                /\ Before("beginCapture", i)
                /\ ~Before("endCapture", i)
                /\ After("endCapture", i)
          /\ events[i].ev = "endCapture" => Before("enqueue", i)
          /\ events[i].ev = "instantiate" => Before("endCapture", i)
          /\ \A j \in 1..Len(events) :
                (i < j /\ events[i].ev = "beginCapture" /\ events[j].ev = "beginCapture")
                    => \E l \in (i + 1)..(j - 1) :
                          events[l] = [ev |-> "endCapture", key |-> events[i].key]
    /\ ~fatal =>
          /\ \A i \in 1..Len(events) :
                events[i].ev = "beginCapture" => After("endCapture", i)
          /\ AllocationExists => m_BindingsStack.offset = 0
          /\ \A key \in DOMAIN m_Graphs :
                /\ m_Graphs[key].deviceMemory = m_ActivationSpace.alloc
                /\ m_Graphs[key].batch = key[2]
                /\ m_Graphs[key].name = key[1]

\* a build of two keys that returned
C18_Witness ==
    /\ ~fatal
    /\ last.op = "BuildGraphs"
    /\ Cardinality(Registered) = 2
    /\ Len(events) = 2 + 2 * Len(KeySteps)

\* what the call c returns when it runs alone against the members as they
\* were when serving began
AloneAnswer(c) ==
    LET models == frozen[3]
        bindings == frozen[8]
        executors == frozen[10]
        key == <<c.name, c.batch>>
    IN  CASE c.op = "IsModelRegistered" ->
                [result |-> IF c.name \in DOMAIN models THEN "true" ELSE "false",
                 value |-> <<>>]
          [] c.op = "IsGraphAvailable" ->
                [result |-> IF key \in DOMAIN executors THEN "true" ELSE "false",
                 value |-> <<>>]
          [] c.op = "GetGraph" ->
                IF key \in DOMAIN executors
                THEN [result |-> "ok", value |-> <<executors[key]>>]
                ELSE [result |-> "notfound", value |-> <<>>]
          [] c.op = "DeviceBindingsByName" ->
                IF c.name \in DOMAIN bindings
                THEN [result |-> "ok", value |-> <<bindings[c.name]>>]
                ELSE [result |-> "notfound", value |-> <<>>]

\* C12: while the threads serve, however their calls interleave, every map,
\* allocator and sizing value is as it was when serving began, the process
\* lives, and a call that returned got what it gets when run alone against
\* that state.
C12_ServingIsReadOnly ==
    serving =>
        /\ workspace = frozen
        /\ ~fatal
        /\ \A t \in Threads :
              threads[t].pc = "returned" =>
                  [result |-> threads[t].result, value |-> threads[t].value]
                      = AloneAnswer(threads[t])

\* one thread missed a graph and holds the error while the other has found
\* the bindings of a built name
C12_Witness ==
    /\ serving
    /\ builtKeys # {}
    /\ threads["t1"].pc = "returned"
    /\ threads["t1"].op = "GetGraph" /\ threads["t1"].result = "notfound"
    /\ threads["t2"].pc = "returned"
    /\ threads["t2"].op = "DeviceBindingsByName" /\ threads["t2"].result = "ok"

\* where the server of a test is in its life
NotStarted ==
    /\ test # ""
    /\ mainPc \in {"expectStopped", "asyncStart", "enqueue", "lock", "wait", "blocked"}
    /\ bgPc \in {"idle", "run"}
AsyncStartReturned == test = "AsyncStartAndShutdown" /\ mainPc = "expectRunning"
CallbackFired == running \/ callbacks > 0
ShutdownCalled == mainPc \in {"expectStoppedAgain", "done"}

====
